---- MODULE Spec2Model ----
(***************************************************************************)
(* watc: a WebAssembly text (S-expression) to binary compiler.             *)
(* The model follows src/src/parser.rs (nom combinators over the source    *)
(* text) and src/src/main.rs (the section encoder and main's pipeline).    *)
(* A source text is a sequence of one-character strings; a position is a   *)
(* 1-based index into it (nom's "remaining input" is the suffix from it).  *)
(***************************************************************************)
EXTENDS Integers, Sequences, FiniteSets, TLC

VARIABLES input, base, pc, rest, mod, wasm, out_file, stderr, panic

vars == <<input, base, pc, rest, mod, wasm, out_file, stderr, panic>>

(***************************************************************************)
(* Characters.  AsciiTable lists the printable ASCII characters in code    *)
(* order (0x20 .. 0x7e); the grave accent and the six non-ASCII characters *)
(* of idchar's symbol set are written by their code points.                *)
(***************************************************************************)
AsciiTable ==
  << " ", "!", "\"", "#", "$", "%", "&", "'", "(", ")", "*", "+", ",", "-", ".", "/",
     "0", "1", "2", "3", "4", "5", "6", "7", "8", "9", ":", ";", "<", "=", ">", "?",
     "@", "A", "B", "C", "D", "E", "F", "G", "H", "I", "J", "K", "L", "M", "N", "O",
     "P", "Q", "R", "S", "T", "U", "V", "W", "X", "Y", "Z", "[", "\\", "]", "^", "_",
     "U+0060", "a", "b", "c", "d", "e", "f", "g", "h", "i", "j", "k", "l", "m", "n", "o",
     "p", "q", "r", "s", "t", "u", "v", "w", "x", "y", "z", "{", "|", "}", "~" >>

AsciiChars == {AsciiTable[k] : k \in 1..Len(AsciiTable)}

\* char::is_ascii_digit / is_ascii_alphabetic / is_ascii_alphanumeric
DigitChars == {AsciiTable[k] : k \in 17..26}

AlphaChars == {AsciiTable[k] : k \in 34..59} \cup {AsciiTable[k] : k \in 66..91}

AlnumChars == DigitChars \cup AlphaChars

\* The literal of idchar: ! # $ % & U+2032 U+2217 + U+2212 . / U+2018 : < = > ? @ \ ^ _ U+02CB U+2223 ~
IdSymbols ==
  { "!", "#", "$", "%", "&", "U+2032", "U+2217", "+", "U+2212", ".", "/", "U+2018",
    ":", "<", "=", ">", "?", "@", "\\", "^", "_", "U+02CB", "U+2223", "~" }

IdChars == AlnumChars \cup IdSymbols

\* one_of(" \u{09}\u{0A}\u{0D}")
SpaceChars == {" ", "\t", "\n", "\r"}

\* str::as_bytes: the UTF-8 bytes of one character
Utf8(c) ==
  CASE c \in AsciiChars -> << 31 + (CHOOSE k \in 1..Len(AsciiTable) : AsciiTable[k] = c) >>
    [] c = "\t" -> << 9 >>
    [] c = "\n" -> << 10 >>
    [] c = "\r" -> << 13 >>
    [] c = "U+02CB" -> << 203, 139 >>
    [] c = "U+2018" -> << 226, 128, 152 >>
    [] c = "U+2032" -> << 226, 128, 178 >>
    [] c = "U+2212" -> << 226, 136, 146 >>
    [] c = "U+2217" -> << 226, 136, 151 >>
    [] c = "U+2223" -> << 226, 136, 163 >>

\* the concatenation of a sequence of sequences
RECURSIVE Flatten(_)
Flatten(seqs) ==
  IF Len(seqs) = 0 THEN << >>
  ELSE IF Len(seqs) = 1 THEN seqs[1]
  ELSE LET h == Len(seqs) \div 2
       IN  Flatten(SubSeq(seqs, 1, h)) \o Flatten(SubSeq(seqs, h + 1, Len(seqs)))

as_bytes(str) == Flatten([k \in 1..Len(str) |-> Utf8(str[k])])

(***************************************************************************)
(* Parser results (nom's IResult): Ok carries the position of the          *)
(* remaining input and the value, Err is nom's Err::Error, and Panic is    *)
(* the unwinding of unimplemented!() inside a map closure.                 *)
(***************************************************************************)
Ok(p, v) == [ok |-> TRUE, panic |-> FALSE, pos |-> p, val |-> v]

Err == [ok |-> FALSE, panic |-> FALSE, pos |-> 0, val |-> << >>]

Panic == [ok |-> FALSE, panic |-> TRUE, pos |-> 0, val |-> << >>]

\* the end of the longest run of characters of cs from i (take_while's split point)
run_end(cs, s, i) ==
  IF i > Len(s) THEN i
  ELSE CHOOSE j \in i..Len(s) + 1 :
         /\ j > Len(s) \/ s[j] \notin cs
         /\ \A k \in i..j - 1 : s[k] \in cs

\* the first position at or after i where t occurs, 0 when none (take_until's split point)
find(t, s, i) ==
  LET at(j) == SubSeq(s, j, j + Len(t) - 1) = t
      last  == Len(s) - Len(t) + 1
  IN  IF \E j \in i..last : at(j)
      THEN CHOOSE j \in i..last : at(j) /\ \A k \in i..j - 1 : ~at(k)
      ELSE 0

\* bytes::complete::tag at position i
match_tag(t, s, i) ==
  IF i + Len(t) - 1 <= Len(s) /\ SubSeq(s, i, i + Len(t) - 1) = t
  THEN Ok(i + Len(t), t)
  ELSE Err

\* character::complete::char at position i
match_char(c, s, i) == IF i <= Len(s) /\ s[i] = c THEN Ok(i + 1, c) ELSE Err

comment(s, i) ==
  IF match_tag(<< ";", ";" >>, s, i).ok
  THEN \* many0_count(is_not("\n")), then alt((tag("\n"), eof))
       LET nl == find(<< "\n" >>, s, i + 2)
       IN  IF nl = 0 THEN Ok(Len(s) + 1, << >>) ELSE Ok(nl + 1, << >>)
  ELSE IF match_tag(<< "(", ";" >>, s, i).ok
  THEN \* take_until(";)"), then tag(";)")
       LET end == find(<< ";", ")" >>, s, i + 2)
       IN  IF end = 0 THEN Err ELSE Ok(end + 2, << >>)
  ELSE Err

RECURSIVE sp(_, _)
sp(s, i) ==
  IF i <= Len(s) /\ s[i] \in SpaceChars THEN sp(s, i + 1)
  ELSE LET c == comment(s, i)
       IN  IF c.ok THEN sp(s, c.pos) ELSE Ok(i, << >>)

string(s, i) ==
  LET end == find(<< "\"" >>, s, i + 1)
  IN  IF match_char("\"", s, i).ok /\ end # 0
      THEN Ok(end + 1, SubSeq(s, i + 1, end - 1))
      ELSE Err

\* take_while(..): zero or more characters, never an error
idchar(s, i) ==
  LET j == run_end(IdChars, s, i) IN Ok(j, SubSeq(s, i, j - 1))

\* recognize(pair(alpha1, idchar))
keyword(s, i) ==
  LET a == run_end(AlphaChars, s, i)
      j == run_end(IdChars, s, a)
  IN  IF a = i THEN Err ELSE Ok(j, SubSeq(s, i, j - 1))

\* preceded(char('$'), idchar)
identifier(s, i) ==
  IF match_char("$", s, i).ok THEN idchar(s, i + 1) ELSE Err

(***************************************************************************)
(* The literals of the grammar, as character sequences.                    *)
(***************************************************************************)
S_module == << "m", "o", "d", "u", "l", "e" >>

S_func == << "f", "u", "n", "c" >>

S_param == << "p", "a", "r", "a", "m" >>

S_result == << "r", "e", "s", "u", "l", "t" >>

S_export == << "e", "x", "p", "o", "r", "t" >>

S_local_get == << "l", "o", "c", "a", "l", ".", "g", "e", "t" >>

S_i32_add == << "i", "3", "2", ".", "a", "d", "d" >>

S_f64 == << "f", "6", "4" >>

S_f32 == << "f", "3", "2" >>

S_i64 == << "i", "6", "4" >>

S_i32 == << "i", "3", "2" >>

\* #[derive(EnumString)] FromStr of ValType, Instr and ExportType: << >> is Err
ValType_from_str(str) ==
  CASE str = S_f64 -> << "F64" >>
    [] str = S_f32 -> << "F32" >>
    [] str = S_i64 -> << "I64" >>
    [] str = S_i32 -> << "I32" >>
    [] OTHER -> << >>

Instr_from_str(str) ==
  CASE str = S_local_get -> << "LocalGet" >>
    [] str = S_i32_add -> << "I32Add" >>
    [] OTHER -> << >>

ExportType_from_str(str) == IF str = S_func THEN << "Func" >> ELSE << >>

instr(s, i) ==
  LET a == run_end(AlnumChars, s, i)
      b == run_end(AlnumChars, s, a + 1)
      parsed == Instr_from_str(SubSeq(s, i, b - 1))
  IN  IF a > i /\ match_char(".", s, a).ok /\ b > a + 1 /\ parsed # << >>
      THEN Ok(b, parsed[1])
      ELSE Err

valtype(s, i) ==
  LET k == keyword(s, i)
  IN  IF k.ok /\ ValType_from_str(k.val) # << >>
      THEN Ok(k.pos, ValType_from_str(k.val)[1])
      ELSE Err

(***************************************************************************)
(* The grammar.  A parser is a value built by nom's combinators, as in the *)
(* source; run (below) applies a parser to a text at a position.           *)
(***************************************************************************)
lex(name) == << "lex", name >>

char(c) == << "char", c >>

tag(t) == << "tag", t >>

tuple(ps) == << "seq", ps, 0 >>

pair(a, b) == << "seq", << a, b >>, 0 >>

preceded(a, b) == << "seq", << a, b >>, 2 >>

delimited(a, b, c) == << "seq", << a, b, c >>, 2 >>

alt(ps) == << "alt", ps >>

many0(inner) == << "many0", inner >>

opt(inner) == << "opt", inner >>

map(inner, f) == << "map", inner, f >>

map_res(inner, f) == << "map", inner, f >>

\* a parser function named by another (func's many0(ws(expr)))
ref(name) == << "ref", name >>

ws(inner) == delimited(lex("sp"), inner, lex("sp"))

s_expr(inner) == delimited(ws(char("(")), inner, ws(char(")")))

param ==
  map(s_expr(tuple(<< preceded(ws(tag(S_param)), lex("identifier")), ws(lex("valtype")) >>)),
      "param")

result == s_expr(preceded(ws(tag(S_result)), lex("valtype")))

export ==
  map(s_expr(tuple(<< preceded(ws(tag(S_export)), ws(lex("string"))),
                      s_expr(pair(map_res(ws(lex("keyword")), "ExportType::from_str"),
                                  lex("identifier"))) >>)),
      "Export")

func ==
  map(s_expr(tuple(<< preceded(ws(tag(S_func)), lex("identifier")),
                      many0(ws(param)),
                      ws(opt(result)),
                      many0(ws(ref("expr"))) >>)),
      "Func")

expr ==
  alt(<< map(func, "Expr::Func"),
         map(export, "Expr::Export"),
         map(lex("instr"), "Expr::Instr"),
         map(lex("identifier"), "Expr::Ident") >>)

\* Module::default()
Module_default == [funcs |-> << >>, exports |-> << >>]

\* The closure of module pushes each expression onto module.funcs or module.exports as
\* many0_count parses it ("push"); the Module returned is what was pushed ("Module").
module ==
  map(s_expr(preceded(ws(tag(S_module)), many0(map(ws(expr), "push")))), "Module")

\* the Module holding the pushed expressions, in order
RECURSIVE pushed(_, _)
pushed(items, m) ==
  IF items = << >> THEN m
  ELSE pushed(Tail(items),
              IF Head(items)[1] = "Func"
              THEN [m EXCEPT !.funcs = Append(@, Head(items)[2])]
              ELSE [m EXCEPT !.exports = Append(@, Head(items)[2])])

\* the closures of map and the functions of map_res, applied to a parsed value
apply(f, pos, v) ==
  CASE f = "param" -> Ok(pos, << v[1], v[2] >>)
    [] f = "ExportType::from_str" ->
         IF ExportType_from_str(v) = << >> THEN Err
         ELSE Ok(pos, ExportType_from_str(v)[1])
    [] f = "Export" ->
         Ok(pos, [export_name |-> v[1], ident |-> v[2][2], ty |-> v[2][1]])
    [] f = "Func" ->
         Ok(pos, [name |-> v[1], params |-> v[2], result |-> v[3], body |-> v[4]])
    [] f = "Expr::Func" -> Ok(pos, << "Func", v >>)
    [] f = "Expr::Export" -> Ok(pos, << "Export", v >>)
    [] f = "Expr::Instr" -> Ok(pos, << "Instr", v >>)
    [] f = "Expr::Ident" -> Ok(pos, << "Ident", v >>)
    [] f = "push" -> IF v[1] \in {"Func", "Export"} THEN Ok(pos, v) ELSE Panic
    [] f = "Module" -> Ok(pos, pushed(v, Module_default))

\* the parser functions of the lexical layer
token(name, s, i) ==
  CASE name = "sp" -> sp(s, i)
    [] name = "string" -> string(s, i)
    [] name = "keyword" -> keyword(s, i)
    [] name = "identifier" -> identifier(s, i)
    [] name = "instr" -> instr(s, i)
    [] name = "valtype" -> valtype(s, i)

\* A parser applied to the text s at position i.  sequence runs the parsers of a
\* tuple, pair, preceded or delimited in turn; choice is alt; repeat is many0, which
\* stops at the first Err and fails on an item that consumes nothing.
RECURSIVE run(_, _, _), sequence(_, _, _, _), choice(_, _, _), repeat(_, _, _, _)
run(p, s, i) ==
  CASE p[1] = "lex" -> token(p[2], s, i)
    [] p[1] = "char" -> match_char(p[2], s, i)
    [] p[1] = "tag" -> match_tag(p[2], s, i)
    [] p[1] = "seq" ->
         LET r == sequence(p[2], s, i, << >>)
         IN  IF r.ok /\ p[3] > 0 THEN Ok(r.pos, r.val[p[3]]) ELSE r
    [] p[1] = "alt" -> choice(p[2], s, i)
    [] p[1] = "many0" -> repeat(p[2], s, i, << >>)
    [] p[1] = "opt" ->
         LET r == run(p[2], s, i)
         IN  IF r.ok THEN Ok(r.pos, << r.val >>)
             ELSE IF r.panic THEN r ELSE Ok(i, << >>)
    [] p[1] = "map" ->
         LET r == run(p[2], s, i)
         IN  IF r.ok THEN apply(p[3], r.pos, r.val) ELSE r
    [] p[1] = "ref" -> run(expr, s, i)

sequence(ps, s, i, acc) ==
  IF ps = << >> THEN Ok(i, acc)
  ELSE LET r == run(Head(ps), s, i)
       IN  IF r.ok THEN sequence(Tail(ps), s, r.pos, Append(acc, r.val)) ELSE r

choice(ps, s, i) ==
  IF ps = << >> THEN Err
  ELSE LET r == run(Head(ps), s, i)
       IN  IF r.ok \/ r.panic THEN r ELSE choice(Tail(ps), s, i)

repeat(inner, s, i, acc) ==
  LET r == run(inner, s, i)
  IN  IF r.panic THEN r
      ELSE IF ~r.ok THEN Ok(i, acc)
      ELSE IF r.pos = i THEN Err
      ELSE repeat(inner, s, r.pos, Append(acc, r.val))

(***************************************************************************)
(* The encoder (src/src/main.rs).  A byte buffer is a sequence of 0..255.  *)
(* A step that can panic returns [ok, bytes, msg]: msg is the panic's      *)
(* message when ok is FALSE.                                               *)
(***************************************************************************)
Done(bytes) == [ok |-> TRUE, bytes |-> bytes, msg |-> ""]

Abort(msg) == [ok |-> FALSE, bytes |-> << >>, msg |-> msg]

\* leb128::write::unsigned: base-128, little-endian, 0x80 set on all but the last byte
RECURSIVE leb128(_)
leb128(n) ==
  IF n < 128 THEN << n >> ELSE << (n % 128) + 128 >> \o leb128(n \div 128)

\* #[repr(u8)] discriminants
ValTypeCode(ty) ==
  CASE ty = "F64" -> 124
    [] ty = "F32" -> 125
    [] ty = "I64" -> 126
    [] ty = "I32" -> 127

\* Instr with local.get given the opcode of local.set
InstrCode_LocalSet(ins) ==
  CASE ins = "LocalGet" -> 33
    [] ins = "I32Add" -> 106

InstrCode(ins) ==
  CASE ins = "LocalGet" -> 32
    [] ins = "I32Add" -> 106

ExportTypeCode(ty) ==
  CASE ty = "Func" -> 0

SectionCode(sec) ==
  CASE sec = "Custom" -> 0
    [] sec = "Type" -> 1
    [] sec = "Import" -> 2
    [] sec = "Func" -> 3
    [] sec = "Table" -> 4
    [] sec = "Memory" -> 5
    [] sec = "Global" -> 6
    [] sec = "Export" -> 7
    [] sec = "Start" -> 8
    [] sec = "Elem" -> 9
    [] sec = "Code" -> 10
    [] sec = "Data" -> 11
    [] sec = "DataCount" -> 12

\* Iterator::position over the keys of a list: the 0-based index of the first
\* element equal to x, -1 for None
\* position(..).unwrap_or(0) in place of position(..).expect(..)
position_or_first(keys, x) ==
  LET hits == {k \in 1..Len(keys) : keys[k] = x}
  IN  IF hits = {} THEN 0
      ELSE (CHOOSE k \in hits : \A j \in hits : k <= j) - 1

position(keys, x) ==
  LET hits == {k \in 1..Len(keys) : keys[k] = x}
  IN  IF hits = {} THEN -1
      ELSE (CHOOSE k \in hits : \A j \in hits : k <= j) - 1

func_names(funcs) == [k \in 1..Len(funcs) |-> funcs[k].name]

param_names(params) == [k \in 1..Len(params) |-> params[k][1]]

into_wasm_vec(vec, len) == leb128(len) \o vec

write_magic_and_version(vec) == vec \o << 0, 97, 115, 109 >> \o << 1, 0, 0, 0 >>

write_export(vec, name, ty, idx) ==
  vec \o into_wasm_vec(as_bytes(name), Len(as_bytes(name)))
      \o << ExportTypeCode(ty) >> \o leb128(idx)

RECURSIVE param_types(_)
param_types(params) ==
  IF params = << >> THEN << >>
  ELSE leb128(ValTypeCode(Head(params)[2])) \o param_types(Tail(params))

write_type(vec, f) ==
  vec \o << 96 >> \o into_wasm_vec(param_types(f.params), Len(f.params))
      \o (IF f.result # << >>
          THEN into_wasm_vec(leb128(ValTypeCode(f.result[1])), 1)
          ELSE << >>)

\* the for loop of write_code over func.body, from the k-th expression on
RECURSIVE code_of(_, _, _)
code_of(f, k, code) ==
  IF k > Len(f.body) THEN Done(code)
  ELSE LET e == f.body[k]
           idx == position(param_names(f.params), e[2])
       IN  IF e[1] = "Instr" THEN code_of(f, k + 1, Append(code, InstrCode(e[2])))
           ELSE IF e[1] = "Ident"
           THEN IF idx < 0 THEN Abort("unknown ident")
                ELSE code_of(f, k + 1, code \o leb128(idx))
           ELSE Abort("not implemented")

write_code(vec, f) ==
  LET locals == into_wasm_vec(<< >>, 0)
      c      == code_of(f, 1, << >>)
      code   == Append(c.bytes, 11)
      size   == Len(locals) + Len(code)
  IN  IF ~c.ok THEN c ELSE Done(vec \o leb128(size) \o locals \o code)

\* write_section with the payload length pushed as one raw byte
write_section_raw_len(vec, sec, bytes) ==
  vec \o << SectionCode(sec) >> \o << Len(bytes) % 256 >> \o bytes

write_section(vec, sec, bytes) ==
  vec \o << SectionCode(sec) >> \o leb128(Len(bytes)) \o bytes

\* the first loop of compile: the export section before its count is spliced in
RECURSIVE export_loop(_, _, _)
export_loop(m, k, export_sec) ==
  IF k > Len(m.exports) THEN Done(export_sec)
  ELSE LET e   == m.exports[k]
           idx == position(func_names(m.funcs), e.ident)
       IN  IF idx < 0 THEN Abort("unknown function")
           ELSE export_loop(m, k + 1, write_export(export_sec, e.ident, e.ty, idx))

\* the second loop of compile: func_sec, type_sec and code_sec grow together
RECURSIVE func_loop(_, _, _)
func_loop(m, k, secs) ==
  IF k > Len(m.funcs) THEN [ok |-> TRUE, secs |-> secs, msg |-> ""]
  ELSE LET f == m.funcs[k]
           c == write_code(secs.code, f)
       IN  IF ~c.ok THEN [ok |-> FALSE, secs |-> secs, msg |-> c.msg]
           ELSE func_loop(m, k + 1,
                  [func |-> secs.func \o leb128(k - 1),
                   type |-> write_type(secs.type, f),
                   code |-> c.bytes])

compile(m) ==
  LET ex == export_loop(m, 1, << >>)
      export_sec == into_wasm_vec(ex.bytes, Len(m.exports))
      fl == func_loop(m, 1, [func |-> << >>, type |-> << >>, code |-> << >>])
      funcs_len == Len(m.funcs)
      func_sec == into_wasm_vec(fl.secs.func, funcs_len)
      type_sec == into_wasm_vec(fl.secs.type, funcs_len)
      code_sec == into_wasm_vec(fl.secs.code, funcs_len)
  IN  IF ~ex.ok THEN ex
      ELSE IF ~fl.ok THEN Abort(fl.msg)
      ELSE Done(write_section(
                  write_section(
                    write_section(
                      write_section(write_magic_and_version(<< >>), "Type", type_sec),
                      "Func", func_sec),
                    "Export", export_sec),
                  "Code", code_sec))

(***************************************************************************)
(* Source texts.  A text is written as tokens with a gap (whitespace and   *)
(* comments, possibly empty) before each token and after the last one.     *)
(***************************************************************************)
LP == << "(" >>

RP == << ")" >>

Id(name) == << "$" >> \o name

Str(chars) == << "\"" >> \o chars \o << "\"" >>

SeqsUpTo(S, n) == UNION {[1..k -> S] : k \in 0..n}

\* gaps[k] stands before toks[k]; gaps[Len(toks) + 1] ends the text
Render(toks, gaps) ==
  Flatten([k \in 1..2 * Len(toks) + 1 |->
             IF k % 2 = 1 THEN gaps[(k + 1) \div 2] ELSE toks[k \div 2]])

\* the usual layout: one space between tokens, none inside a parenthesis
PlainGaps(toks) ==
  [k \in 1..Len(toks) + 1 |->
     IF k = 1 \/ k = Len(toks) + 1 \/ toks[k - 1] = LP \/ toks[k] = RP
     THEN << >> ELSE << " " >>]

Plain(toks) == Render(toks, PlainGaps(toks))

ParamForm(name, ty) == << LP, S_param, Id(name), ty, RP >>

ResultForm(ty) == << LP, S_result, ty, RP >>

FuncForm(name, params, res, body) ==
  << LP, S_func, Id(name) >> \o params \o res \o body \o << RP >>

ExportForm(xname, name) ==
  << LP, S_export, Str(xname), LP, S_func, Id(name), RP, RP >>

ModuleForm(children) == << LP, S_module >> \o children \o << RP >>

N_add == << "a", "d", "d" >>

N_sum == << "s", "u", "m" >>

N_f == << "f" >>

N_g == << "g" >>

N_x == << "x" >>

N_p0 == << "p", "0" >>

N_p1 == << "p", "1" >>

(***************************************************************************)
(* main (src/src/main.rs 28-40): parse the text, compile the module,       *)
(* write the file; a syntax error is printed instead.  An Option is a      *)
(* sequence of length 0 or 1.                                              *)
(***************************************************************************)
MaxChildren == 2

MaxParams == 2

MaxBody == 2

MaxInsertPoints == 1

LongLen == 130

Repeat(x, n) == [k \in 1..n |-> x]

\* Children of the module root: functions, exports, a bare instruction, a bare identifier
ChildChoices ==
  { FuncForm(N_add, << >>, << >>, << >>),
    FuncForm(N_f, << >>, << >>, << >>),
    FuncForm(<< >>, << >>, << >>, << >>),
    ExportForm(N_add, N_add),
    ExportForm(N_sum, N_add),
    ExportForm(N_f, N_f),
    << S_i32_add >>,
    << Id(N_x) >> }

ModuleTexts ==
  {Plain(ModuleForm(Flatten(cs))) : cs \in SeqsUpTo(ChildChoices, MaxChildren)}

\* One function: its parameter list and its result clause
ParamChoices ==
  { ParamForm(N_p0, S_i32), ParamForm(N_p1, S_i64), ParamForm(N_p0, S_f32),
    ParamForm(<< >>, S_f64) }

ResultChoices == {<< >>} \cup {ResultForm(ty) : ty \in {S_i32, S_i64, S_f32, S_f64}}

SignatureTexts ==
  {Plain(ModuleForm(FuncForm(N_f, Flatten(ps), r, << >>))) :
     ps \in SeqsUpTo(ParamChoices, MaxParams), r \in ResultChoices}

\* One function of parameters p0: i32, p1: i32: its body
AddParams == ParamForm(N_p0, S_i32) \o ParamForm(N_p1, S_i32)

BodyChoices ==
  { << S_local_get, Id(N_p0) >>,
    << S_local_get, Id(N_p1) >>,
    << S_i32_add >>,
    << Id(N_x) >>,
    << LP, S_local_get, Id(N_p0), RP >>,
    << LP, S_local_get, Id(N_p1), RP >>,
    FuncForm(N_g, << >>, << >>, << >>),
    ExportForm(N_g, N_g) }

BodyTexts ==
  {Plain(ModuleForm(FuncForm(N_add, AddParams, r, Flatten(b)))) :
     b \in SeqsUpTo(BodyChoices, MaxBody), r \in {<< >>, ResultForm(S_i32)}}

\* Two functions and an export: which failure the encoder meets first
PairBodies ==
  { << >>, << Id(N_x) >>, << S_local_get, Id(N_p0) >>, FuncForm(N_g, << >>, << >>, << >>) }

PairTexts ==
  {Plain(ModuleForm(FuncForm(N_f, ParamForm(N_p0, S_i32), << >>, b1)
                    \o FuncForm(N_add, ParamForm(N_p0, S_i32), << >>, b2) \o e)) :
     b1 \in PairBodies, b2 \in PairBodies,
     e \in {<< >>, ExportForm(N_add, N_add), ExportForm(N_g, N_g)}}

\* The add function of the README, flat and with parenthesized instructions,
\* alone or after another function, exported or not
AddFlat == << S_local_get, Id(N_p0), S_local_get, Id(N_p1), S_i32_add >>

AddParen ==
  << LP, S_local_get, Id(N_p0), RP, LP, S_local_get, Id(N_p1), RP, S_i32_add >>

AddTexts(body) ==
  {Plain(ModuleForm(pre \o FuncForm(n, AddParams, r, body) \o post)) :
     pre \in {<< >>, FuncForm(N_g, << >>, << >>, << >>)},
     n \in {N_add, N_f},
     r \in {<< >>, ResultForm(S_i32)},
     post \in {<< >>, ExportForm(N_add, N_add)}}

\* Text after the root form
TrailChoices ==
  { << Id(N_x) >>, << N_x >>, << RP >>, ModuleForm(<< >>),
    ModuleForm(FuncForm(N_g, << >>, << >>, << >>)), << << "(", ";" >> >> }

TrailTexts ==
  {Plain(m \o tr) :
     m \in {ModuleForm(<< >>),
            ModuleForm(FuncForm(N_add, << >>, << >>, << >>) \o ExportForm(N_add, N_add))},
     tr \in TrailChoices}

\* Malformed texts
MalformedTexts ==
  {Plain(toks) : toks \in
     { << >>,
       << LP, S_module >>,
       << S_module >>,
       << LP, RP >>,
       FuncForm(N_f, << >>, << >>, << >>),
       ModuleForm(<< LP, S_func, RP >>),
       ModuleForm(<< LP, S_func, N_f, RP >>),
       ModuleForm(<< LP, S_func, Id(N_f) >>),
       ModuleForm(FuncForm(N_f, << >>, << >>, << << "i", "3", "2", ".", "s", "u", "b" >> >>)),
       ModuleForm(FuncForm(N_f, << LP, S_param, S_i32, RP >>, << >>, << >>)),
       ModuleForm(FuncForm(N_f, << LP, S_param, Id(N_x), RP >>, << >>, << >>)),
       ModuleForm(FuncForm(N_f, << LP, S_param, Id(N_x), << "i", "8" >>, RP >>, << >>, << >>)),
       ModuleForm(FuncForm(N_f, << >>, << LP, S_result, RP >>, << >>)),
       ModuleForm(FuncForm(N_f, ResultForm(S_i32), ParamForm(N_x, S_i32), << >>)),
       ModuleForm(<< LP, S_export, LP, S_func, Id(N_f), RP, RP >>),
       ModuleForm(<< LP, S_export, Str(N_f), LP, S_module, Id(N_f), RP, RP >>),
       ModuleForm(<< LP, S_export, Str(N_f), LP, S_func, RP, RP >>),
       ModuleForm(<< LP, S_export, Str(N_f), LP, S_func, Id(<< >>), RP, RP >>),
       ModuleForm(<< LP, S_export, << "\"", "f" >>, LP, S_func, Id(N_f), RP, RP >>) }}

\* Long texts: a function name and an external name of LongLen characters
LongTexts ==
  { Plain(ModuleForm(FuncForm(Repeat("a", LongLen), << >>, << >>, << >>)
                     \o ExportForm(N_f, Repeat("a", LongLen)))),
    Plain(ModuleForm(FuncForm(N_f, << >>, << >>, << >>)
                     \o ExportForm(Repeat("a", LongLen), N_f))) }

\* Whitespace and comments inserted at token boundaries
TriviaChoices ==
  { << " " >>, << "\t" >>, << "\n" >>, << "\r" >>,
    << ";", ";", "c", "\n" >>, << "(", ";", "c", ";", ")" >> }

RECURSIVE InsertAll(_, _, _)
InsertAll(gaps, at, ins) ==
  IF at = {} THEN gaps
  ELSE LET k == CHOOSE k \in at : TRUE
       IN  InsertAll([gaps EXCEPT ![k] = ins[k] \o @], at \ {k}, ins)

\* the subsets of S of at most n elements
RECURSIVE SubsetsUpTo(_, _)
SubsetsUpTo(S, n) ==
  IF n = 0 THEN {{}}
  ELSE LET less == SubsetsUpTo(S, n - 1)
       IN  less \cup {a \cup {x} : a \in less, x \in S}

\* << the text, the text with trivia inserted at up to n of its token boundaries >>
Insertions(toks, gaps, n) ==
  UNION { {<< Render(toks, gaps), Render(toks, InsertAll(gaps, at, ins)) >> :
             ins \in [at -> TriviaChoices]} :
          at \in SubsetsUpTo(1..Len(toks) + 1, n) }

SmallModule == ModuleForm(FuncForm(N_f, << >>, << >>, << >>))

\* SmallModule with a block comment before its last parenthesis
CommentedGaps ==
  [PlainGaps(SmallModule) EXCEPT ![Len(SmallModule)] = << " ", "(", ";", "c", ";", ")", " " >>]

FullModule ==
  ModuleForm(FuncForm(N_f, ParamForm(N_p0, S_i32), ResultForm(S_i32),
                      << S_local_get, Id(N_p0) >>)
             \o ExportForm(N_f, N_f))

Texts ==
  ModuleTexts \cup SignatureTexts \cup BodyTexts \cup PairTexts \cup AddTexts(AddFlat)
    \cup AddTexts(AddParen) \cup TrailTexts \cup MalformedTexts \cup LongTexts

\* << base, input >>: the text read from the file, and the text it was made from
\* by inserting whitespace and comments (the same text when nothing was inserted)
Sources ==
  {<< txt, txt >> : txt \in Texts}
    \cup Insertions(SmallModule, PlainGaps(SmallModule), MaxInsertPoints)
    \cup Insertions(SmallModule, CommentedGaps, MaxInsertPoints)
    \cup Insertions(FullModule, PlainGaps(FullModule), 1)

Init ==
  /\ \E src \in Sources : base = src[1] /\ input = src[2]
  /\ pc = "parse"
  /\ rest = << >>
  /\ mod = Module_default
  /\ wasm = << >>
  /\ out_file = << >>
  /\ stderr = << >>
  /\ panic = << >>

\* match module(&input).finish()
ParseInput ==
  /\ pc = "parse"
  /\ LET r == run(module, input, 1)
     IN  IF r.ok
         THEN /\ pc' = "compile"
              /\ mod' = r.val
              /\ rest' = SubSeq(input, r.pos, Len(input))
              /\ panic' = panic
         ELSE IF r.panic
         THEN /\ pc' = "panicked"
              /\ panic' = << [in |-> "module", msg |-> "not implemented"] >>
              /\ UNCHANGED << mod, rest >>
         ELSE /\ pc' = "report"
              /\ UNCHANGED << mod, rest, panic >>
  /\ UNCHANGED << input, base, wasm, out_file, stderr >>

\* let wasm = compile(&module).unwrap();
Compile ==
  /\ pc = "compile"
  /\ LET c == compile(mod)
     IN  IF c.ok
         THEN /\ pc' = "write"
              /\ wasm' = << c.bytes >>
              /\ panic' = panic
         ELSE /\ pc' = "panicked"
              /\ panic' = << [in |-> "compile", msg |-> c.msg] >>
              /\ wasm' = wasm
  /\ UNCHANGED << input, base, rest, mod, out_file, stderr >>

\* fs::write(&out_file_path, wasm).unwrap();
WriteOutput ==
  /\ pc = "write"
  /\ out_file' = wasm
  /\ pc' = "done"
  /\ UNCHANGED << input, base, rest, mod, wasm, stderr, panic >>

\* Err(e) => eprintln!("{}", convert_error(input.as_str(), e))
ReportError ==
  /\ pc = "report"
  /\ stderr' = << "syntax error" >>
  /\ pc' = "done"
  /\ UNCHANGED << input, base, rest, mod, wasm, out_file, panic >>

Next == ParseInput \/ Compile \/ WriteOutput \/ ReportError

Spec == Init /\ [][Next]_vars

(***************************************************************************)
(* Reading a binary back, for the properties below.                        *)
(***************************************************************************)
\* the variable-length unsigned integer at position i of b, and the position after it
RECURSIVE uleb(_, _)
uleb(b, i) ==
  IF i > Len(b) THEN [ok |-> FALSE, val |-> 0, next |-> i]
  ELSE IF b[i] < 128 THEN [ok |-> TRUE, val |-> b[i], next |-> i + 1]
  ELSE LET r == uleb(b, i + 1)
       IN  [ok |-> r.ok, val |-> (b[i] - 128) + 128 * r.val, next |-> r.next]

\* the sections of b from position i to its end: id byte, length, payload
RECURSIVE sections(_, _)
sections(b, i) ==
  IF i > Len(b) THEN [ok |-> TRUE, secs |-> << >>]
  ELSE LET n    == uleb(b, i + 1)
           last == n.next + n.val - 1
           r    == sections(b, last + 1)
       IN  IF ~n.ok \/ last > Len(b) THEN [ok |-> FALSE, secs |-> << >>]
           ELSE [ok |-> r.ok,
                 secs |-> << [id |-> b[i], payload |-> SubSeq(b, n.next, last)] >> \o r.secs]

\* the size-prefixed records of b from position i to its end
RECURSIVE records(_, _)
records(b, i) ==
  IF i > Len(b) THEN << >>
  ELSE LET n    == uleb(b, i)
           last == n.next + n.val - 1
       IN  IF ~n.ok \/ last > Len(b) THEN << << "malformed" >> >>
           ELSE << SubSeq(b, n.next, last) >> \o records(b, last + 1)

Header == << 0, 97, 115, 109, 1, 0, 0, 0 >>

\* the payload of the k-th section of the buffer compile returned
Payload(k) ==
  LET d == sections(wasm[1], Len(Header) + 1)
  IN  IF d.ok /\ k <= Len(d.secs) THEN d.secs[k].payload ELSE << >>

\* the function bodies of the code section: the records after the section's count
CodeBodies == LET c == Payload(4) IN records(c, uleb(c, 1).next)

\* module() returned Err, module() panicked, module() returned a Module
ParseFailed == pc = "report" \/ stderr # << >>

ParsePanicked == panic # << >> /\ panic[1].in = "module"

Parsed == pc # "parse" /\ ~ParseFailed /\ ~ParsePanicked

\* compile was called and has returned or panicked
CompileRan == wasm # << >> \/ (panic # << >> /\ panic[1].in = "compile")

CompileFailed(msg) ==
  /\ pc = "panicked"
  /\ panic = << [in |-> "compile", msg |-> msg] >>
  /\ wasm = << >>
  /\ out_file = << >>

\* the 0-based index of the first of names that equals x
FirstIndex(names, x) ==
  CHOOSE k \in 0..Len(names) - 1 :
    names[k + 1] = x /\ \A j \in 1..k : names[j] # x

(***************************************************************************)
(* C1                                                                      *)
(***************************************************************************)
ExportRecord(m, e) ==
  leb128(Len(as_bytes(e.export_name))) \o as_bytes(e.export_name) \o << 0 >>
    \o leb128(FirstIndex(func_names(m.funcs), e.ident))

\* C1: the export section holds, per export in declaration order, the external name
\* (length-prefixed), the kind byte 0x00 and the index of the first function whose
\* name is the exported identifier.
C1_ExportRecords ==
  wasm # << >> =>
    Payload(3) = leb128(Len(mod.exports))
                   \o Flatten([k \in 1..Len(mod.exports) |-> ExportRecord(mod, mod.exports[k])])

(***************************************************************************)
(* C2                                                                      *)
(***************************************************************************)
TypeRecord(f) ==
  << 96 >> \o leb128(Len(f.params))
    \o [k \in 1..Len(f.params) |-> ValTypeCode(f.params[k][2])]
    \o (IF f.result = << >> THEN << 0 >> ELSE << 1, ValTypeCode(f.result[1]) >>)

\* C2: the type section holds, per function in declaration order, 0x60, the parameter
\* vector and a result vector with its own count: 0, or 1 and the result's code.
C2_TypeRecords ==
  wasm # << >> =>
    Payload(1) = leb128(Len(mod.funcs))
                   \o Flatten([k \in 1..Len(mod.funcs) |-> TypeRecord(mod.funcs[k])])

(***************************************************************************)
(* C3                                                                      *)
(***************************************************************************)
\* C3: every buffer compile returns is the 8 header bytes followed by exactly the
\* sections 1, 3, 7, 10 in this order, each an id byte, the length of its payload and
\* the payload, with nothing after the last.
C3_Container ==
  wasm # << >> =>
    LET b == wasm[1]
        d == sections(b, Len(Header) + 1)
    IN  /\ Len(b) >= Len(Header)
        /\ SubSeq(b, 1, Len(Header)) = Header
        /\ d.ok
        /\ [k \in 1..Len(d.secs) |-> d.secs[k].id] = << 1, 3, 7, 10 >>

\* a binary was written one of whose sections needs a two-byte length
C3_Witness ==
  /\ pc = "done"
  /\ out_file = wasm
  /\ wasm # << >>
  /\ \E k \in 1..4 : Len(Payload(k)) >= 128

(***************************************************************************)
(* C4                                                                      *)
(***************************************************************************)
FlatTexts == AddTexts(AddFlat)

ParenTexts == AddTexts(AddParen)

AddStream == << 32, 0, 32, 1, 106, 11 >>

\* a function of parameters p0: i32, p1: i32 and body local.get p0, local.get p1, i32.add
IsAdd(f) ==
  /\ f.params = << << N_p0, "I32" >>, << N_p1, "I32" >> >>
  /\ f.body = << << "Instr", "LocalGet" >>, << "Ident", N_p0 >>,
                 << "Instr", "LocalGet" >>, << "Ident", N_p1 >>,
                 << "Instr", "I32Add" >> >>

\* the opcode stream of the k-th function body: what follows its empty locals vector
Stream(k) ==
  LET bodies == CodeBodies
  IN  IF k <= Len(bodies) /\ Len(bodies[k]) >= 1 /\ bodies[k][1] = 0
      THEN Tail(bodies[k]) ELSE << >>

\* C4 as stated: the function with parenthesized body (local.get $p0) (local.get $p1)
\* i32.add parses, and its code record has the add stream.
C4_ParenthesizedBody ==
  (input \in ParenTexts /\ pc # "parse") =>
    /\ Parsed
    /\ wasm # << >> => \E k \in 1..Len(mod.funcs) : Stream(k) = AddStream

\* C4 amended: the function with body local.get $p0 local.get $p1 i32.add written as
\* bare tokens parses to that body, and every buffer compile returns holds the add
\* stream for it; the parenthesized form is a syntax error.
C4_FlatBody ==
  /\ (input \in FlatTexts /\ pc # "parse") =>
       Parsed /\ \E k \in 1..Len(mod.funcs) : IsAdd(mod.funcs[k])
  /\ (input \in ParenTexts /\ pc # "parse") => ParseFailed /\ wasm = << >>
  /\ wasm # << >> =>
       \A k \in 1..Len(mod.funcs) : IsAdd(mod.funcs[k]) => Stream(k) = AddStream

\* the flat add function was compiled as the second function and written
C4_Witness ==
  /\ pc = "done"
  /\ input \in FlatTexts
  /\ out_file = wasm
  /\ Len(mod.funcs) = 2
  /\ IsAdd(mod.funcs[2])
  /\ Stream(2) = AddStream

(***************************************************************************)
(* C5                                                                      *)
(***************************************************************************)
\* C5: a module is accepted only when nothing but whitespace and comments follows the
\* root form: once module() has returned a Module, the remaining input is empty.
C5_TotalInput == Parsed => rest = << >>

(***************************************************************************)
(* C6                                                                      *)
(***************************************************************************)
\* C6: the unimplemented!() of module's closure is never reached: a child of the root
\* that is an instruction or an identifier is a syntax error.
C6_NoRootFault == ~ParsePanicked

(***************************************************************************)
(* C7                                                                      *)
(***************************************************************************)
UnresolvedExport(m) ==
  \E k \in 1..Len(m.exports) :
    \A j \in 1..Len(m.funcs) : m.funcs[j].name # m.exports[k].ident

\* the body expressions of the functions as << function, expression >> positions
Slots(m) ==
  UNION {{<< j, k >> : k \in 1..Len(m.funcs[j].body)} : j \in 1..Len(m.funcs)}

\* the order in which the function loop of compile and write_code visit them
Before(a, b) == a[1] < b[1] \/ (a[1] = b[1] /\ a[2] < b[2])

UnknownIdentAt(m, s) ==
  LET f == m.funcs[s[1]]
      e == f.body[s[2]]
  IN  e[1] = "Ident" /\ \A k \in 1..Len(f.params) : f.params[k][1] # e[2]

NestedFormAt(m, s) == m.funcs[s[1]].body[s[2]][1] \in {"Func", "Export"}

UnresolvedIdentifier(m) == \E s \in Slots(m) : UnknownIdentAt(m, s)

\* an unknown identifier is the first body expression write_code cannot encode
UnresolvedIdentifierFirst(m) ==
  \E s \in Slots(m) :
    /\ UnknownIdentAt(m, s)
    /\ \A r \in Slots(m) : Before(r, s) => ~UnknownIdentAt(m, r) /\ ~NestedFormAt(m, r)

\* C7 as stated: an unresolved export makes compile fail with the unknown-function
\* failure, and an unresolved body identifier makes it fail with the unknown-ident
\* failure; no buffer is returned and nothing is written.
C7_BothReported ==
  CompileRan =>
    /\ UnresolvedExport(mod) => CompileFailed("unknown function")
    /\ UnresolvedIdentifier(mod) => CompileFailed("unknown ident")

\* C7 amended: exports are resolved before any body is encoded, so an unresolved
\* export makes compile fail with the unknown-function failure whatever the bodies
\* hold; with every export resolved, an unknown identifier that is the first body
\* expression write_code cannot encode makes it fail with the unknown-ident failure;
\* whenever compile fails no buffer is returned and nothing is written.
C7_FirstReported ==
  CompileRan =>
    /\ UnresolvedExport(mod) => CompileFailed("unknown function")
    /\ (~UnresolvedExport(mod) /\ UnresolvedIdentifierFirst(mod)) =>
         CompileFailed("unknown ident")
    /\ panic # << >> => wasm = << >> /\ out_file = << >>
    /\ (~UnresolvedExport(mod) /\ \A s \in Slots(mod) :
          ~UnknownIdentAt(mod, s) /\ ~NestedFormAt(mod, s)) => wasm # << >>

\* compile failed on a module that has both an unresolved export and an unknown
\* body identifier
C7_Witness ==
  /\ UnresolvedExport(mod)
  /\ UnresolvedIdentifier(mod)
  /\ CompileFailed("unknown function")

(***************************************************************************)
(* C8                                                                      *)
(***************************************************************************)
\* C8: a text obtained from a text that parses to a tree T by inserting whitespace
\* and comments at token boundaries parses too, and to T.
C8_TriviaInvariance ==
  LET t == run(module, base, 1)
  IN  (pc # "parse" /\ t.ok) => Parsed /\ mod = t.val

(***************************************************************************)
(* C9                                                                      *)
(***************************************************************************)
RECURSIVE NamesNonEmpty(_)
NamesNonEmpty(e) ==
  CASE e[1] = "Func" ->
         /\ e[2].name # << >>
         /\ \A k \in 1..Len(e[2].params) : e[2].params[k][1] # << >>
         /\ \A k \in 1..Len(e[2].body) : NamesNonEmpty(e[2].body[k])
    [] e[1] = "Export" -> e[2].ident # << >>
    [] OTHER -> TRUE

\* C9: a `$` with no identifier character after it is a syntax error: no function,
\* parameter or export target of a parsed module has an empty name.
C9_NonEmptyNames ==
  Parsed =>
    /\ \A k \in 1..Len(mod.funcs) : NamesNonEmpty(<< "Func", mod.funcs[k] >>)
    /\ \A k \in 1..Len(mod.exports) : NamesNonEmpty(<< "Export", mod.exports[k] >>)

(***************************************************************************)
(* C10                                                                     *)
(***************************************************************************)
\* C10: for every module module() returns, compile returns a buffer or fails with
\* one of the two resolution failures; the unimplemented!() of write_code is never
\* reached, also for a body that holds a nested function or export form.
C10_EncodingTotal ==
  (Parsed /\ pc # "compile") =>
    \/ wasm # << >>
    \/ CompileFailed("unknown function")
    \/ CompileFailed("unknown ident")

====
